---- MODULE Spec2Model ----
(***************************************************************************)
(* WikiReview (users-frontend): the comment tree, the comment-vote ledger, *)
(* the rating ledger and the session layer, as route handlers over one     *)
(* SQLite store (src/lib/db.ts).  Every SQL statement is atomic; a handler *)
(* that checks and then writes is a sequence of statements, and handlers   *)
(* running on different connections interleave between statements.         *)
(***************************************************************************)
EXTENDS Integers, Sequences, FiniteSets, TLC

\* ------------------------------------------------------------------ bounds
MaxComments == 4
MaxTime == 1
MaxVoteRows == 3
MaxRatingRows == 2
MaxSessions == 2

\* ----------------------------------------------------------------- strings
\* A string is a sequence of one-character strings.
SP == " "
IsSpace(ch) == ch = SP

RECURSIVE TrimStart(_)
\* String.prototype.trim, leading part
TrimStart(s) ==
    IF s = <<>> THEN <<>>
    ELSE IF IsSpace(Head(s)) THEN TrimStart(Tail(s)) ELSE s

RECURSIVE TrimEnd(_)
\* String.prototype.trim, trailing part
TrimEnd(s) ==
    IF s = <<>> THEN <<>>
    ELSE IF IsSpace(s[Len(s)]) THEN TrimEnd(SubSeq(s, 1, Len(s) - 1)) ELSE s

\* String.prototype.trim
Trim(s) == TrimEnd(TrimStart(s))

\* JavaScript truthiness of a string: the empty string is falsy
Truthy(s) == s # <<>>

Anonymous == <<"A", "n", "o", "n", "y", "m", "o", "u", "s">>
Alice == <<"a", "l", "i">>
Bob == <<"b", "o", "b">>
Al == <<"A", "l">>
Hi == <<"h", "i">>

\* parseInt of a number given in halves (3 is 1.5): the integer part
ParseInt(h) == h \div 2

\* Math.round of a number given in halves: round half up
MathRound(h) == (h + 1) \div 2

\* -------------------------------------------------------------------- state
VARIABLES
    users,      \* table users
    sessions,   \* table sessions
    comments,   \* table comments
    votes,      \* table comment_votes
    ratings,    \* table ratings
    seq,        \* AUTOINCREMENT counters (sqlite_sequence) and issued tokens
    now,        \* the clock (CURRENT_TIMESTAMP, Date.now())
    proc,       \* the requests in flight, one per connection
    last,       \* the statement or response most recently produced
    streak,     \* per (comment, voter): the run of equal votes cast one after another
    parentFK    \* comments.parentCommentId carries its FOREIGN KEY ... ON DELETE CASCADE

vars == <<users, sessions, comments, votes, ratings, seq, now, proc, last, streak, parentFK>>

Procs == {"p1", "p2"}

Idle == [pc |-> "idle"]

Init ==
    /\ users = {}
    /\ sessions = {}
    /\ comments = {}
    /\ votes = {}
    /\ ratings = {}
    /\ seq = [users |-> 0, comments |-> 0, votes |-> 0, ratings |-> 0, tokens |-> 0]
    /\ now = 0
    /\ proc = [p \in Procs |-> Idle]
    /\ last = [op |-> "init"]
    /\ streak = {}
    /\ parentFK = TRUE

\* the clock advances, up to a limit
Elapse(limit) ==
    /\ now < limit
    /\ now' = now + 1
    /\ last' = [op |-> "Tick"]
    /\ UNCHANGED <<parentFK, users, sessions, comments, votes, ratings, seq, proc, streak>>

Tick == Elapse(MaxTime)

\* ----------------------------------------------------------------- comments
\* CommentById without its WHERE clause
CommentByIdAny(id) == comments

\* SELECT id, pageId FROM comments WHERE id = ?
CommentById(id) == {c \in comments : c.id = id}

\* the insert writing over the first row instead of taking the next id
InsertCommentFirstId(pageId, text, author, parentCommentId) ==
    [id |-> 1, pageId |-> pageId, text |-> text,
     author |-> author, parentCommentId |-> parentCommentId, createdAt |-> now]

\* INSERT INTO comments (pageId, pageTitle, text, author, parentCommentId)
InsertComment(pageId, text, author, parentCommentId) ==
    [id |-> seq.comments + 1, pageId |-> pageId, text |-> text,
     author |-> author, parentCommentId |-> parentCommentId, createdAt |-> now]

\* ValidateParent without the same-page test
ValidateParentAnyPage(pageId, parentCommentId) ==
    IF parentCommentId = 0 THEN 0
    ELSE IF CommentById(parentCommentId) = {} THEN 404
    ELSE 0

\* ValidateParent answering a missing parent like a parent of another page
ValidateParentOneStatus(pageId, parentCommentId) ==
    IF parentCommentId = 0 THEN 0
    ELSE IF \A parentComment \in CommentById(parentCommentId) :
                parentComment.pageId # ParseInt(pageId)
    THEN 400
    ELSE 0

\* the parent of a reply must exist and belong to the same page
ValidateParent(pageId, parentCommentId) ==
    IF parentCommentId = 0 THEN 0
    ELSE IF CommentById(parentCommentId) = {} THEN 404
    ELSE IF \E parentComment \in CommentById(parentCommentId) :
                parentComment.pageId # ParseInt(pageId)
    THEN 400
    ELSE 0

\* FOREIGN KEY (parentCommentId) REFERENCES comments(id), with foreign_keys = ON
ParentForeignKey(row) ==
    ~parentFK \/ row.parentCommentId = 0 \/ CommentById(row.parentCommentId) # {}

RECURSIVE Descendants(_, _)
\* the comments reached from the ids by following parentCommentId downwards
Descendants(ids, rows) ==
    LET more == {c.id : c \in {r \in rows : r.parentCommentId \in ids}} \ ids
    IN  IF more = {} THEN ids ELSE Descendants(ids \cup more, rows)

\* DELETE FROM comments WHERE id = ?, as the schema answers it: ON DELETE CASCADE
\* removes the replies, recursively, where parentCommentId carries the foreign key,
\* and the votes of every comment removed
DeleteComment(id) ==
    LET removed == IF parentFK THEN Descendants({id}, comments) ELSE {id}
    IN
    /\ CommentById(id) # {}
    /\ comments' = {c \in comments : c.id \notin removed}
    /\ votes' = {v \in votes : v.commentId \notin removed}
    /\ last' = [op |-> "DeleteComment", id |-> id,
                before |-> [comments |-> comments, votes |-> votes]]
    /\ UNCHANGED <<parentFK, users, sessions, ratings, seq, now, proc, streak>>

\* POST /api/comments.  pageId is a number in halves (0 is absent), parentCommentId
\* is 0 when absent (undefined, null and 0 are all falsy).
AddComment(pageId, text, author, parentCommentId) ==
    LET request == [op |-> "AddComment", pageId |-> pageId, text |-> text,
                    parentCommentId |-> parentCommentId, before |-> comments]
        row == InsertComment(ParseInt(pageId), Trim(text),
                             IF Truthy(author) THEN author ELSE Anonymous,
                             parentCommentId)
    IN
    /\ seq.comments < MaxComments
    /\ UNCHANGED <<parentFK, users, sessions, votes, ratings, now, proc, streak>>
    /\ IF pageId = 0 \/ ~Truthy(text)
       THEN /\ last' = request @@ [status |-> 400]
            /\ UNCHANGED <<comments, seq>>
       ELSE IF ValidateParent(pageId, parentCommentId) # 0
       THEN /\ last' = request @@ [status |-> ValidateParent(pageId, parentCommentId)]
            /\ UNCHANGED <<comments, seq>>
       ELSE IF ~ParentForeignKey(row)
       THEN /\ last' = request @@ [status |-> 500]
            /\ UNCHANGED <<comments, seq>>
       ELSE /\ comments' = comments \cup {row}
            /\ seq' = [seq EXCEPT !.comments = row.id]
            /\ last' = request @@ [status |-> 201, comment |-> row]

\* --------------------------------------------------------- users, sessions
\* 30 days, in clock units
SessionTTL == 2

\* sessionId 0 stands for a request without the sessionId cookie
NoCookie == 0

\* hashPassword: salt ":" pbkdf2(password, salt); pbkdf2 is one-way and is kept
\* symbolic
Pbkdf2(password, salt) == <<"pbkdf2", password, salt>>

HashPassword(password, salt) == [salt |-> salt, hash |-> Pbkdf2(password, salt)]

\* verifyPassword comparing the stored hash with itself
VerifyPasswordSelf(password, hashedPassword) == hashedPassword.hash = hashedPassword.hash

\* verifyPassword
VerifyPassword(password, hashedPassword) ==
    hashedPassword.hash = Pbkdf2(password, hashedPassword.salt)

\* emailRegex /^[^\s@]+@[^\s@]+\.[^\s@]+$/
EmailRegexTest(email) ==
    \E i \in 1..Len(email), j \in 1..Len(email) :
        /\ 1 < i /\ i + 1 < j /\ j < Len(email)
        /\ email[i] = "@" /\ email[j] = "."
        /\ \A k \in 1..Len(email) : ~IsSpace(email[k]) /\ (email[k] = "@" => k = i)

\* String.prototype.toLowerCase, on the letters the model uses
LowerChar(ch) ==
    CASE ch = "A" -> "a"
      [] ch = "B" -> "b"
      [] ch = "L" -> "l"
      [] OTHER -> ch

ToLowerCase(s) == [i \in 1..Len(s) |-> LowerChar(s[i])]

\* the check for an existing user looking at the username only
UserByUsernameOnly(username, email) == {u \in users : u.username = username}

\* SELECT id FROM users WHERE username = ? OR email = ?
UserByUsernameOrEmail(username, email) ==
    {u \in users : u.username = username \/ u.email = email}

\* getUserByUsername
GetUserByUsername(username) == {u \in users : u.username = username}

\* getUserById
GetUserById(id) == {u \in users : u.id = id}

\* getSession returning the row whatever its expiresAt
GetSessionNoExpiry(sessionId) == {s \in sessions : s.sessionId = sessionId}

\* getSession returning a live row whatever its token
GetSessionAnyToken(sessionId) == {s \in sessions : s.expiresAt > now}

\* getSession: the row is returned only while expiresAt > Date.now()
GetSession(sessionId) ==
    {s \in sessions : s.sessionId = sessionId /\ s.expiresAt > now}

\* getCurrentUser reading the sessions table itself, without getSession
GetCurrentUserNoExpiry(sessionId) ==
    IF sessionId = NoCookie THEN {}
    ELSE UNION {GetUserById(s.userId) : s \in GetSessionNoExpiry(sessionId)}

\* getCurrentUser: token -> session -> user, the empty set when any step fails
GetCurrentUser(sessionId) ==
    IF sessionId = NoCookie THEN {}
    ELSE UNION {GetUserById(s.userId) : s \in GetSession(sessionId)}

\* the display name taken from the username alone
DisplayNameUsername(u) == u.username

\* currentUser.realname || currentUser.username
DisplayName(u) == IF Truthy(u.realname) THEN u.realname ELSE u.username

\* createSession without the 30 days added
CreateSessionExpired(userId) ==
    [sessionId |-> seq.tokens + 1, userId |-> userId, expiresAt |-> now]

\* createSession with a token derived from the user instead of a random one
CreateSessionPerUser(userId) ==
    [sessionId |-> userId, userId |-> userId, expiresAt |-> now + SessionTTL]

\* createSession: a fresh random token, expiring 30 days from now
CreateSession(userId) ==
    [sessionId |-> seq.tokens + 1, userId |-> userId, expiresAt |-> now + SessionTTL]

\* POST /api/auth/register
Register(username, password, email, realname) ==
    LET request == [op |-> "Register", username |-> username, password |-> password,
                    email |-> email, before |-> users, sessionsBefore |-> sessions]
    IN
    /\ seq.tokens < MaxSessions
    /\ UNCHANGED <<parentFK, comments, votes, ratings, now, proc, streak>>
    /\ IF \/ ~Truthy(username) \/ ~Truthy(password) \/ ~Truthy(email)
          \/ Len(username) < 3
          \/ Len(password) < 8
          \/ ~EmailRegexTest(email)
       THEN /\ last' = request @@ [status |-> 400]
            /\ UNCHANGED <<users, sessions, seq>>
       ELSE IF UserByUsernameOrEmail(Trim(username), ToLowerCase(Trim(email))) # {}
       THEN /\ last' = request @@ [status |-> 409]
            /\ UNCHANGED <<users, sessions, seq>>
       ELSE \E salt \in {seq.users + 1} :
            LET user == [id |-> seq.users + 1, username |-> Trim(username),
                         email |-> ToLowerCase(Trim(email)),
                         password |-> HashPassword(password, salt),
                         realname |-> Trim(realname)]
                session == CreateSession(user.id)
            IN  /\ users' = users \cup {user}
                /\ sessions' = sessions \cup {session}
                /\ seq' = [seq EXCEPT !.users = user.id, !.tokens = session.sessionId]
                /\ last' = request @@ [status |-> 200, user |-> user,
                                       cookie |-> session.sessionId]

\* deleteSession matching no row
DeleteSessionNone(sessionId) == sessions

\* deleteSession without its WHERE clause
DeleteSessionAll(sessionId) == {}

\* deleteSession deleting every session of the token's user
DeleteSessionOfUser(sessionId) ==
    {s \in sessions : \A x \in sessions : x.sessionId = sessionId => s.userId # x.userId}

\* deleteSession: DELETE FROM sessions WHERE sessionId = ?
DeleteSession(sessionId) == {s \in sessions : s.sessionId # sessionId}

\* POST /api/auth/logout
Logout(sessionId) ==
    /\ sessions' = IF sessionId = NoCookie THEN sessions ELSE DeleteSession(sessionId)
    /\ last' = [op |-> "Logout", status |-> 200, sessionId |-> sessionId,
                before |-> sessions]
    /\ UNCHANGED <<parentFK, users, comments, votes, ratings, seq, now, proc, streak>>

\* cleanupExpiredSessions deleting the sessions that expire within the next 30 days
CleanupExpiringSessions ==
    /\ sessions' = {s \in sessions : ~(s.expiresAt < now + SessionTTL)}
    /\ last' = [op |-> "CleanupExpiredSessions", before |-> sessions]
    /\ UNCHANGED <<parentFK, users, comments, votes, ratings, seq, now, proc, streak>>

\* cleanupExpiredSessions: DELETE FROM sessions WHERE expiresAt < Date.now()
CleanupExpiredSessions ==
    /\ sessions' = {s \in sessions : ~(s.expiresAt < now)}
    /\ last' = [op |-> "CleanupExpiredSessions", before |-> sessions]
    /\ UNCHANGED <<parentFK, users, comments, votes, ratings, seq, now, proc, streak>>

\* verifyCredentials: the user of that name when the password verifies, else nobody
VerifyCredentials(username, password) ==
    {u \in GetUserByUsername(username) : VerifyPassword(password, u.password)}

\* POST /api/auth/login
Login(username, password) ==
    LET user == VerifyCredentials(Trim(username), password)
    IN
    /\ seq.tokens < MaxSessions
    /\ UNCHANGED <<parentFK, users, comments, votes, ratings, now, proc, streak>>
    /\ IF ~Truthy(username) \/ ~Truthy(password)
       THEN /\ last' = [op |-> "Login", status |-> 400, username |-> username,
                        password |-> password]
            /\ UNCHANGED <<sessions, seq>>
       ELSE IF user = {}
       THEN /\ last' = [op |-> "Login", status |-> 401, username |-> username,
                        password |-> password]
            /\ UNCHANGED <<sessions, seq>>
       ELSE LET u == CHOOSE x \in user : TRUE
                session == CreateSession(u.id)
            IN  /\ sessions' = sessions \cup {session}
                /\ seq' = [seq EXCEPT !.tokens = seq.tokens + 1]
                /\ last' = [op |-> "Login", status |-> 200, username |-> username,
                            password |-> password, user |-> u,
                            cookie |-> session.sessionId]

\* GET /api/auth/user
GetUser(sessionId) ==
    LET session == IF sessionId = NoCookie THEN {} ELSE GetSession(sessionId)
        user == UNION {GetUserById(x.userId) : x \in session}
    IN
    /\ last' = [op |-> "GetUser", status |-> 200, sessionId |-> sessionId,
                loggedIn |-> user # {}, user |-> user,
                before |-> [users |-> users, sessions |-> sessions]]
    /\ UNCHANGED <<parentFK, users, sessions, comments, votes, ratings, seq, now, proc, streak>>

\* ------------------------------------------------------------ comment list
\* CountVotes without the test of the vote's value
CountVotesAnyValue(commentId, vote) ==
    Cardinality({v \in votes : v.commentId = commentId})

\* SELECT COUNT(*) FROM comment_votes WHERE commentId = ? AND vote = ?
CountVotes(commentId, vote) ==
    Cardinality({v \in votes : v.commentId = commentId /\ v.vote = vote})

\* SELECT vote FROM comment_votes WHERE commentId = ? AND author = ?
VoteOf(commentId, author) ==
    {v \in votes : v.commentId = commentId /\ v.author = author}

\* userVote?.vote || null, null written 0
UserVote(commentId, author) ==
    IF VoteOf(commentId, author) = {} THEN 0
    ELSE (CHOOSE v \in VoteOf(commentId, author) : TRUE).vote

RECURSIVE OrderByCreatedAt(_)
\* the orders ORDER BY createdAt ASC may return rows in: rows with equal
\* createdAt (CURRENT_TIMESTAMP has a resolution of one second) in any order
OrderByCreatedAt(rows) ==
    IF rows = {} THEN {<<>>}
    ELSE UNION {{<<r>> \o s : s \in OrderByCreatedAt(rows \ {r})} :
                r \in {r \in rows : \A q \in rows : r.createdAt <= q.createdAt}}

\* SELECT * FROM comments WHERE pageId = ? ORDER BY createdAt ASC
SelectCommentsByPage(pageId) ==
    OrderByCreatedAt({c \in comments : c.pageId = pageId})

\* TopLevelComments without the filter
TopLevelUnfiltered(allComments) == allComments

\* allComments.filter(c => !c.parentCommentId)
TopLevelComments(allComments) ==
    SelectSeq(allComments, LAMBDA c : c.parentCommentId = 0)

\* repliesMap.get(id) || []
RepliesOf(allComments, id) ==
    SelectSeq(allComments, LAMBDA c : c.parentCommentId # 0 /\ c.parentCommentId = id)

\* getVoteData; author is the empty string when nobody is logged in
GetVoteData(commentId, author) ==
    [upvotes |-> CountVotes(commentId, 1),
     downvotes |-> CountVotes(commentId, -1),
     userVote |-> IF Truthy(author) THEN UserVote(commentId, author) ELSE 0]

RECURSIVE BuildCommentTree(_, _, _)
\* buildCommentTree
BuildCommentTree(allComments, comment, author) ==
    LET replies == RepliesOf(allComments, comment.id)
        voteData == GetVoteData(comment.id, author)
    IN  [id |-> comment.id, pageId |-> comment.pageId, text |-> comment.text,
         author |-> comment.author, createdAt |-> comment.createdAt,
         parentCommentId |-> comment.parentCommentId,
         upvotes |-> voteData.upvotes, downvotes |-> voteData.downvotes,
         userVote |-> voteData.userVote,
         replies |-> [i \in 1..Len(replies) |->
                         BuildCommentTree(allComments, replies[i], author)]]

\* GET /api/comments?pageId=..  pageId is in halves, 0 when the parameter is absent
ListComments(pageId, sessionId) ==
    /\ UNCHANGED <<parentFK, users, sessions, comments, votes, ratings, seq, now, proc, streak>>
    /\ IF pageId = 0
       THEN last' = [op |-> "ListComments", status |-> 400]
       ELSE \E allComments \in SelectCommentsByPage(ParseInt(pageId)) :
            LET cu == GetCurrentUser(sessionId)
                author == IF cu = {} THEN <<>> ELSE DisplayName(CHOOSE u \in cu : TRUE)
                top == TopLevelComments(allComments)
            IN  last' = [op |-> "ListComments", status |-> 200,
                         pageId |-> ParseInt(pageId),
                         comments |-> [i \in 1..Len(top) |->
                                          BuildCommentTree(allComments, top[i], author)]]

\* ------------------------------------------------------------ comment votes
\* the vote requests in flight
VotesInFlight == {q \in Procs : proc[q].pc # "idle" /\ proc[q].op = "vote"}

\* DeleteVote that deletes nothing
DeleteVoteKeep(id) == votes

\* DELETE FROM comment_votes WHERE id = ?
DeleteVote(id) == {v \in votes : v.id # id}

\* UpdateVote without its WHERE clause
UpdateVoteAll(vote, id) == {[v EXCEPT !.vote = vote] : v \in votes}

\* UPDATE comment_votes SET vote = ? WHERE id = ?
UpdateVote(vote, id) ==
    {IF v.id = id THEN [v EXCEPT !.vote = vote] ELSE v : v \in votes}

\* a comment_votes table without its UNIQUE constraint
VoteUniqueOff(commentId, author) == TRUE

\* UNIQUE(commentId, author) of comment_votes
VoteUnique(commentId, author) == VoteOf(commentId, author) = {}

\* INSERT INTO comment_votes (commentId, author, vote) VALUES (?, ?, ?)
InsertVote(commentId, author, vote) ==
    [id |-> seq.votes + 1, commentId |-> commentId, author |-> author, vote |-> vote]

\* POST /api/comments/vote, lines 8-36: the body is validated and the caller resolved.
\* body.commentId is 0 when absent; body has no vote field when vote is undefined.
VoteBegin(p, body, sessionId) ==
    LET request == [op |-> "VoteBegin", p |-> p, body |-> body,
                    sessionId |-> sessionId, before |-> votes, wrote |-> FALSE]
        currentUser == GetCurrentUser(sessionId)
    IN
    /\ proc[p].pc = "idle"
    /\ seq.votes + Cardinality(VotesInFlight) < MaxVoteRows
    /\ UNCHANGED <<parentFK, users, sessions, comments, votes, ratings, seq, now, streak>>
    /\ IF body.commentId = 0 \/ "vote" \notin DOMAIN body
       THEN last' = request @@ [status |-> 400] /\ UNCHANGED proc
       ELSE IF body.vote # 1 /\ body.vote # -1
       THEN last' = request @@ [status |-> 400] /\ UNCHANGED proc
       ELSE IF currentUser = {}
       THEN last' = request @@ [status |-> 401] /\ UNCHANGED proc
       ELSE /\ last' = request @@ [status |-> 0]
            /\ proc' = [proc EXCEPT ![p] =
                   [pc |-> "vote_select", op |-> "vote",
                    commentId |-> body.commentId, vote |-> body.vote,
                    userId |-> (CHOOSE u \in currentUser : TRUE).id,
                    author |-> DisplayName(CHOOSE u \in currentUser : TRUE),
                    existingVote |-> {}, wrote |-> FALSE]]

\* lines 38-53: the comment must exist; the caller's vote on it is looked up
VoteSelect(p) ==
    LET r == proc[p]
        request == [op |-> "VoteSelect", p |-> p, commentId |-> r.commentId,
                    author |-> r.author, vote |-> r.vote, before |-> votes,
                    wrote |-> r.wrote]
    IN
    /\ r.pc = "vote_select"
    /\ UNCHANGED <<parentFK, users, sessions, comments, votes, ratings, seq, now, streak>>
    /\ IF CommentById(r.commentId) = {}
       THEN /\ last' = request @@ [status |-> 404]
            /\ proc' = [proc EXCEPT ![p] = Idle]
       ELSE /\ last' = request @@ [status |-> 0]
            /\ proc' = [proc EXCEPT ![p] =
                   [r EXCEPT !.pc = "vote_write",
                             !.existingVote = VoteOf(r.commentId, r.author)]]

\* the run of equal votes cast one after another on (commentId, author), after a
\* write that saw the row as it was (fresh) and went through (ok)
NextStreak(commentId, author, vote, fresh, ok) ==
    LET old == {s \in streak : s.commentId = commentId /\ s.author = author}
        n == IF ~fresh \/ ~ok THEN 0
             ELSE IF \E s \in old : s.vote = vote /\ s.n < 3 THEN
                      (CHOOSE s \in old : TRUE).n + 1
             ELSE IF VoteOf(commentId, author) = {} THEN 1
             ELSE 0
    IN  (streak \ old) \cup
        (IF n = 0 THEN {}
         ELSE {[commentId |-> commentId, author |-> author, vote |-> vote, n |-> n]})

\* lines 55-68: delete a vote repeated, update a vote changed, insert a new vote
VoteWrite(p) ==
    LET r == proc[p]
        existingVote == IF r.existingVote = {} THEN [id |-> 0, vote |-> 0]
                        ELSE CHOOSE v \in r.existingVote : TRUE
        request == [op |-> "VoteWrite", p |-> p, commentId |-> r.commentId,
                    userId |-> r.userId, author |-> r.author, vote |-> r.vote,
                    existingVote |-> r.existingVote, before |-> votes]
        fresh == r.existingVote = VoteOf(r.commentId, r.author)
    IN
    /\ r.pc = "vote_write"
    /\ UNCHANGED <<parentFK, users, sessions, comments, ratings, now>>
    /\ IF r.existingVote # {}
       THEN /\ votes' = IF existingVote.vote = r.vote
                        THEN DeleteVote(existingVote.id)
                        ELSE UpdateVote(r.vote, existingVote.id)
            /\ UNCHANGED seq
            /\ last' = request @@ [status |-> 0]
            /\ streak' = NextStreak(r.commentId, r.author, r.vote, fresh, TRUE)
            /\ proc' = [proc EXCEPT ![p] =
                   [r EXCEPT !.pc = "vote_respond", !.wrote = (votes' # votes)]]
       ELSE IF VoteUnique(r.commentId, r.author)
       THEN /\ votes' = votes \cup {InsertVote(r.commentId, r.author, r.vote)}
            /\ seq' = [seq EXCEPT !.votes = seq.votes + 1]
            /\ last' = request @@ [status |-> 0]
            /\ streak' = NextStreak(r.commentId, r.author, r.vote, fresh, TRUE)
            /\ proc' = [proc EXCEPT ![p] =
                   [r EXCEPT !.pc = "vote_respond", !.wrote = TRUE]]
       ELSE \* the insert throws SQLITE_CONSTRAINT_UNIQUE: lines 90-98 answer 500
            /\ UNCHANGED <<votes, seq>>
            /\ last' = request @@ [status |-> 500]
            /\ streak' = NextStreak(r.commentId, r.author, r.vote, fresh, FALSE)
            /\ proc' = [proc EXCEPT ![p] = Idle]

\* lines 70-89: the votes of the comment are counted, the caller's vote is read
\* back and the response is sent
VoteRespond(p) ==
    LET r == proc[p]
    IN
    /\ r.pc = "vote_respond"
    /\ UNCHANGED <<parentFK, users, sessions, comments, votes, ratings, seq, now, streak>>
    /\ proc' = [proc EXCEPT ![p] = Idle]
    /\ last' = [op |-> "Vote", p |-> p, status |-> 200, commentId |-> r.commentId,
                author |-> r.author, vote |-> r.vote,
                existingVote |-> r.existingVote, wrote |-> r.wrote,
                upvotes |-> CountVotes(r.commentId, 1),
                downvotes |-> CountVotes(r.commentId, -1),
                userVote |-> UserVote(r.commentId, r.author)]

\* ------------------------------------------------------------------ ratings
\* the rating requests in flight
RatingsInFlight == {q \in Procs : proc[q].pc # "idle" /\ proc[q].op = "rate"}

\* SELECT id FROM ratings WHERE pageId = ? AND author = ?
RatingByKey(pageId, author) ==
    {r \in ratings : r.pageId = pageId /\ r.author = author}

\* a ratings table without idx_ratings_pageId_author
RatingUniqueOff(pageId, author) == TRUE

\* CREATE UNIQUE INDEX idx_ratings_pageId_author ON ratings(pageId, author)
RatingUnique(pageId, author) == RatingByKey(pageId, author) = {}

\* RatingValid accepting every rating that is not below 1
RatingValidNoUpper(rating) == rating # 0 /\ ~(rating < 2)

\* lines 76-88: the rating, a number in halves, is present and within [1, 5]
RatingValid(rating) == rating # 0 /\ ~(rating < 2 \/ rating > 10)

\* UPDATE ratings SET rating = ? WHERE id = ?
UpdateRatingById(rating, id) ==
    {IF r.id = id THEN [r EXCEPT !.rating = rating] ELSE r : r \in ratings}

\* the update of the catch branch matching no row
UpdateRatingNoRow(rating, pageId, author) == ratings

\* UPDATE ratings SET rating = ? WHERE pageId = ? AND author = ?
UpdateRatingByKey(rating, pageId, author) ==
    {IF r.pageId = pageId /\ r.author = author THEN [r EXCEPT !.rating = rating] ELSE r :
        r \in ratings}

\* INSERT INTO ratings (pageId, pageTitle, rating, author) VALUES (?, ?, ?, ?)
InsertRating(pageId, rating, author) ==
    [id |-> seq.ratings + 1, pageId |-> pageId, rating |-> rating, author |-> author]

\* SELECT rating FROM ratings WHERE pageId = ?
RatingsOfPage(pageId) == {r \in ratings : r.pageId = pageId}

RECURSIVE SumRatings(_)
\* ratings.reduce((acc, r) => acc + r.rating, 0)
SumRatings(rows) ==
    IF rows = {} THEN 0
    ELSE LET r == CHOOSE x \in rows : TRUE IN r.rating + SumRatings(rows \ {r})

\* AverageTenths cutting the second decimal off instead of rounding
AverageTruncated(rows) ==
    IF Cardinality(rows) > 0
    THEN (10 * SumRatings(rows)) \div Cardinality(rows)
    ELSE 0

\* Math.round(average * 10) / 10, in tenths; 0 when there is no rating
AverageTenths(rows) ==
    IF Cardinality(rows) > 0
    THEN (20 * SumRatings(rows) + Cardinality(rows)) \div (2 * Cardinality(rows))
    ELSE 0

\* POST /api/ratings, lines 74-108: the body is validated, the rater resolved and the
\* rater's row looked up.  pageId and rating are numbers in halves, 0 when absent;
\* providedAuthor is the empty string when absent.
RateBegin(p, pageId, rating, providedAuthor, sessionId) ==
    LET request == [op |-> "RateBegin", p |-> p, pageId |-> pageId, rating |-> rating,
                    providedAuthor |-> providedAuthor, sessionId |-> sessionId,
                    before |-> ratings]
        currentUser == GetCurrentUser(sessionId)
        author == IF Truthy(providedAuthor) THEN providedAuthor
                  ELSE IF currentUser # {}
                       THEN DisplayName(CHOOSE u \in currentUser : TRUE)
                       ELSE Anonymous
    IN
    /\ proc[p].pc = "idle"
    /\ seq.ratings + Cardinality(RatingsInFlight) < MaxRatingRows
    /\ UNCHANGED <<parentFK, users, sessions, comments, votes, ratings, seq, now, streak>>
    /\ IF pageId = 0 \/ ~RatingValid(rating)
       THEN last' = request @@ [status |-> 400] /\ UNCHANGED proc
       ELSE /\ last' = request @@ [status |-> 0]
            /\ proc' = [proc EXCEPT ![p] =
                   [pc |-> "rate_write", op |-> "rate", pageId |-> ParseInt(pageId),
                    rating |-> rating, author |-> author,
                    existingRating |-> RatingByKey(ParseInt(pageId), author),
                    countBefore |-> Cardinality(RatingsOfPage(ParseInt(pageId))),
                    seqBefore |-> seq.ratings]]

\* lines 110-136: update the row found, or insert one; an insert refused by the unique
\* index becomes an update of the row that is there
RateWrite(p) ==
    LET r == proc[p]
        request == [op |-> "RateWrite", p |-> p, pageId |-> r.pageId,
                    author |-> r.author, rating |-> r.rating,
                    existingRating |-> r.existingRating, before |-> ratings]
    IN
    /\ r.pc = "rate_write"
    /\ UNCHANGED <<parentFK, users, sessions, comments, votes, now, streak>>
    /\ proc' = [proc EXCEPT ![p] = [r EXCEPT !.pc = "rate_respond"]]
    /\ IF r.existingRating # {}
       THEN /\ ratings' = UpdateRatingById(MathRound(r.rating),
                                           (CHOOSE e \in r.existingRating : TRUE).id)
            /\ UNCHANGED seq
            /\ last' = request @@ [path |-> "update"]
       ELSE IF RatingUnique(r.pageId, r.author)
       THEN /\ ratings' = ratings \cup {InsertRating(r.pageId, MathRound(r.rating), r.author)}
            /\ seq' = [seq EXCEPT !.ratings = seq.ratings + 1]
            /\ last' = request @@ [path |-> "insert"]
       ELSE /\ ratings' = UpdateRatingByKey(MathRound(r.rating), r.pageId, r.author)
            /\ UNCHANGED seq
            /\ last' = request @@ [path |-> "caught"]

\* lines 138-152: the ratings of the page are read and the response is sent
RateRespond(p) ==
    LET r == proc[p]
        rows == RatingsOfPage(r.pageId)
    IN
    /\ r.pc = "rate_respond"
    /\ UNCHANGED <<parentFK, users, sessions, comments, votes, ratings, seq, now, streak>>
    /\ proc' = [proc EXCEPT ![p] = Idle]
    /\ last' = [op |-> "Rate", p |-> p, status |-> 200, pageId |-> r.pageId,
                author |-> r.author, existingRating |-> r.existingRating,
                countBefore |-> r.countBefore, seqBefore |-> r.seqBefore,
                average |-> AverageTenths(rows), count |-> Cardinality(rows),
                userRating |-> MathRound(r.rating)]

\* SELECT rating FROM ratings WHERE pageId = ? AND author = ?; 0 stands for undefined
UserRating(pageId, author) ==
    LET row == RatingByKey(pageId, author)
    IN  IF row = {} THEN 0 ELSE (CHOOSE r \in row : TRUE).rating

\* GET /api/ratings; pageId is a number in halves, 0 when absent, authorParam the
\* empty string when absent
GetRatings(pageId, authorParam, sessionId) ==
    LET currentUser == GetCurrentUser(sessionId)
        author == IF Truthy(authorParam) THEN authorParam
                  ELSE IF currentUser # {}
                       THEN DisplayName(CHOOSE u \in currentUser : TRUE)
                       ELSE <<>>
        rows == RatingsOfPage(ParseInt(pageId))
    IN
    /\ UNCHANGED <<parentFK, users, sessions, comments, votes, ratings, seq, now, proc, streak>>
    /\ IF pageId = 0
       THEN last' = [op |-> "GetRatings", status |-> 400, pageId |-> 0]
       ELSE last' = [op |-> "GetRatings", status |-> 200, pageId |-> ParseInt(pageId),
                     sessionId |-> sessionId, authorParam |-> authorParam,
                     author |-> author,
                     average |-> AverageTenths(rows), count |-> Cardinality(rows),
                     userRating |-> IF Truthy(author)
                                    THEN UserRating(ParseInt(pageId), author) ELSE 0]

\* ---------------------------------------------------------- page protection
\* POST to the protection route.  title is the empty string when absent; protect is
\* "undefined", "true" or "false"; token is the empty string when absent.  The wiki
\* is outside the program: its answer to the token query is a token, the token "+\"
\* it gives to anonymous callers or an error, and its answer to the protect call is
\* the protections, an error or something else.  The sessionId cookie is forwarded
\* to the wiki and read by nothing.
Protect(title, protect, token, sessionId, tokenAnswer, protectAnswer) ==
    LET request == [op |-> "Protect", title |-> title, protect |-> protect,
                    token |-> token, sessionId |-> sessionId]
    IN
    /\ UNCHANGED <<parentFK, users, sessions, comments, votes, ratings, seq, now, proc, streak>>
    /\ IF ~Truthy(title) \/ protect = "undefined"
       THEN last' = request @@ [status |-> 400, reached |-> FALSE]
       ELSE IF ~Truthy(token) /\ tokenAnswer # "token"
       THEN last' = request @@ [status |-> 401, reached |-> FALSE]
       ELSE last' = request @@
                [status |-> CASE protectAnswer = "error" -> 400
                              [] protectAnswer = "protections" -> 200
                              [] OTHER -> 500,
                 reached |-> TRUE]

\* ---------------------------------------------------------- specifications
PageIds == {0, 2, 3, 4}

NextComment ==
    \/ Tick
    \/ \E pageId \in PageIds, text \in {<<>>, Hi}, author \in {Alice},
          parentCommentId \in 0..(MaxComments + 1) :
          AddComment(pageId, text, author, parentCommentId)
    \/ \E pageId \in PageIds : ListComments(pageId, NoCookie)

SpecComment == Init /\ [][NextComment]_vars

Password == <<"p", "a", "s", "s", "w", "o", "r", "d">>
Email(name) == name \o <<"@", "x", ".", "y">>

Registrations ==
    {[username |-> Alice, password |-> Password, email |-> Email(Alice), realname |-> <<>>],
     [username |-> Bob, password |-> Password, email |-> Email(Bob), realname |-> Al]}

\* the comments the vote ledger is exercised on
MaxVotedComments == 2

\* request bodies: votes on stored and missing comments, and malformed bodies
VoteBodies ==
    {[commentId |-> c, vote |-> v] : c \in 1..(MaxVotedComments + 1), v \in {-1, 1}}
        \cup {[commentId |-> 0, vote |-> 1], [commentId |-> 1, vote |-> 0],
              [commentId |-> 1, vote |-> 2], [commentId |-> 1]}

\* one vote request at a time, among registrations, logouts, comments and listings
NextVote ==
    \/ \E r \in Registrations :
          /\ seq.users = (IF r.username = Alice THEN 0 ELSE 1)
          /\ Register(r.username, r.password, r.email, r.realname)
    \/ Logout(1)
    \/ seq.comments < MaxVotedComments /\ AddComment(2, Hi, <<>>, 0)
    \/ \E body \in VoteBodies, sessionId \in 0..MaxSessions :
          VoteBegin("p1", body, sessionId)
    \/ VoteSelect("p1")
    \/ VoteWrite("p1")
    \/ VoteRespond("p1")

SpecVote == Init /\ [][NextVote]_vars

\* two users and a comment, then vote requests on two connections, statement by
\* statement
NextVoteRace ==
    \/ \E r \in Registrations :
          /\ seq.users = (IF r.username = Alice THEN 0 ELSE 1)
          /\ Register(r.username, r.password, r.email, r.realname)
    \/ seq.users = 2 /\ seq.comments < 1 /\ AddComment(2, Hi, <<>>, 0)
    \/ \E p \in Procs, vote \in {-1, 1}, sessionId \in 1..MaxSessions :
          seq.comments = 1 /\ VoteBegin(p, [commentId |-> 1, vote |-> vote], sessionId)
    \/ \E p \in Procs : VoteSelect(p)
    \/ \E p \in Procs : VoteWrite(p)
    \/ \E p \in Procs : VoteRespond(p)
    \/ ListComments(2, NoCookie)

SpecVoteRace == Init /\ [][NextVoteRace]_vars

\* ratings in halves: absent, 0.5, 1, 1.5, 2, 4.5, 5 and 5.5
RatingInputs == {0, 1, 2, 3, 4, 9, 10, 11}

\* rating requests on two connections, statement by statement
NextRating ==
    \/ \E p \in Procs, pageId \in {0, 2, 4}, rating \in RatingInputs,
          providedAuthor \in {<<>>, Bob} :
          RateBegin(p, pageId, rating, providedAuthor, NoCookie)
    \/ \E p \in Procs : RateWrite(p)
    \/ \E p \in Procs : RateRespond(p)

SpecRating == Init /\ [][NextRating]_vars

MaxRaters == 4

\* the i-th rater's name
Rater(i) == [k \in 1..i |-> "r"]

\* the ratings tables of page 1 that requests served one after another leave: one row
\* per rater
RatingTables ==
    {{[id |-> i, pageId |-> 1, rating |-> f[i], author |-> Rater(i)] : i \in 1..n} :
        n \in 0..MaxRaters, f \in [1..MaxRaters -> 1..5]}

InitAverage ==
    /\ users = {}
    /\ sessions = {}
    /\ comments = {}
    /\ votes = {}
    /\ ratings \in RatingTables
    /\ seq = [users |-> 0, comments |-> 0, votes |-> 0,
              ratings |-> Cardinality(ratings), tokens |-> 0]
    /\ now = 0
    /\ proc = [p \in Procs |-> Idle]
    /\ last = [op |-> "init"]
    /\ streak = {}
    /\ parentFK = TRUE

\* the ratings of a page are read, and rated on one connection
NextAverage ==
    \/ \E pageId \in {0, 2, 4}, authorParam \in {<<>>, Rater(1)} :
          GetRatings(pageId, authorParam, NoCookie)
    \/ \E rating \in {4, 9}, providedAuthor \in {Rater(1), Rater(2)} :
          RateBegin("p1", 2, rating, providedAuthor, NoCookie)
    \/ RateWrite("p1")
    \/ RateRespond("p1")

SpecAverage == InitAverage /\ [][NextAverage]_vars

\* the clock of the session runs: past the expiry of a session and past its sweep
MaxClock == 3

WrongPassword == <<"p", "a", "s", "s", "w", "o", "r", "D">>

\* the tokens a request may carry: none, the issued ones and one never issued
Tokens == 0..MaxSessions + 1

\* registration, login, logout, the expiry sweep and the passage of time
NextSession ==
    \/ \E r \in Registrations :
          Register(r.username, r.password, r.email, r.realname)
    \/ \E username \in {<<>>, Alice, Bob}, password \in {Password, WrongPassword} :
          Login(username, password)
    \/ \E t \in Tokens : Logout(t)
    \/ \E t \in Tokens : GetUser(t)
    \/ \E t \in Tokens : GetRatings(2, <<>>, t)
    \/ CleanupExpiredSessions
    \/ Elapse(MaxClock)

\* ratings on one connection by named, logged-in and anonymous raters
NextRater ==
    \/ \E r \in Registrations :
          /\ seq.users = (IF r.username = Alice THEN 0 ELSE 1)
          /\ Register(r.username, r.password, r.email, r.realname)
    \/ Logout(1)
    \/ \E rating \in {4, 10}, providedAuthor \in {<<>>, Bob}, sessionId \in Tokens :
          RateBegin("p1", 2, rating, providedAuthor, sessionId)
    \/ RateWrite("p1")
    \/ RateRespond("p1")

SpecRater == Init /\ [][NextRater]_vars

\* one user with two sessions logs out and votes on one connection
NextLogout ==
    \/ seq.users = 0 /\ Register(Alice, Password, Email(Alice), <<>>)
    \/ seq.users = 1 /\ Login(Alice, Password)
    \/ seq.users = 1 /\ seq.comments < 1 /\ AddComment(2, Hi, <<>>, 0)
    \/ \E t \in Tokens : Logout(t)
    \/ \E t \in Tokens : GetUser(t)
    \/ \E vote \in {-1, 1}, t \in Tokens :
          seq.comments = 1 /\ VoteBegin("p1", [commentId |-> 1, vote |-> vote], t)
    \/ VoteSelect("p1")
    \/ VoteWrite("p1")
    \/ VoteRespond("p1")

SpecLogout == Init /\ [][NextLogout]_vars

\* a database whose comments table was created by this schema, or by an earlier one
\* without parentCommentId and then migrated (db.ts:76-92: the column is added
\* without its foreign key)
InitMigrated ==
    /\ users = {}
    /\ sessions = {}
    /\ comments = {}
    /\ votes = {}
    /\ ratings = {}
    /\ seq = [users |-> 0, comments |-> 0, votes |-> 0, ratings |-> 0, tokens |-> 0]
    /\ now = 0
    /\ proc = [p \in Procs |-> Idle]
    /\ last = [op |-> "init"]
    /\ streak = {}
    /\ parentFK \in BOOLEAN

MaxDeletable == 3

\* comments and replies are written and voted on by one user, and rows are deleted
\* in the store between requests
NextDelete ==
    \/ seq.users = 0 /\ Register(Alice, Password, Email(Alice), <<>>)
    \/ \E parentCommentId \in 0..MaxDeletable :
          /\ seq.comments < MaxDeletable
          /\ AddComment(2, Hi, <<>>, parentCommentId)
    \/ \E c \in 1..MaxDeletable :
          VoteBegin("p1", [commentId |-> c, vote |-> 1], 1)
    \/ VoteSelect("p1")
    \/ VoteWrite("p1")
    \/ VoteRespond("p1")
    \/ \E id \in 1..MaxDeletable : proc["p1"].pc = "idle" /\ DeleteComment(id)

SpecDelete == InitMigrated /\ [][NextDelete]_vars

\* every handler that reads or writes the comments of a page: new comments and
\* replies, listings, and vote requests statement by statement
NextAppend ==
    \/ seq.users = 0 /\ Register(Alice, Password, Email(Alice), <<>>)
    \/ Logout(1)
    \/ \E pageId \in {2, 4}, parentCommentId \in 0..1 :
          /\ seq.comments < MaxVotedComments
          /\ AddComment(pageId, Hi, Alice, parentCommentId)
    \/ ListComments(2, 1)
    \/ \E vote \in {-1, 1}, sessionId \in 0..1 :
          VoteBegin("p1", [commentId |-> 1, vote |-> vote], sessionId)
    \/ VoteSelect("p1")
    \/ VoteWrite("p1")
    \/ VoteRespond("p1")

SpecAppend == Init /\ [][NextAppend]_vars

\* two accounts, the real name of the second being the username of the first
Namesakes ==
    {[username |-> Alice, password |-> Password, email |-> Email(Alice), realname |-> <<>>],
     [username |-> Bob, password |-> Password, email |-> Email(Bob), realname |-> Alice]}

\* the two accounts vote on one comment and list it, one request at a time
NextNamesake ==
    \/ \E r \in Namesakes :
          /\ seq.users = (IF r.username = Alice THEN 0 ELSE 1)
          /\ Register(r.username, r.password, r.email, r.realname)
    \/ seq.comments < 1 /\ AddComment(2, Hi, <<>>, 0)
    \/ \E vote \in {-1, 1}, sessionId \in 1..MaxSessions :
          VoteBegin("p1", [commentId |-> 1, vote |-> vote], sessionId)
    \/ VoteSelect("p1")
    \/ VoteWrite("p1")
    \/ VoteRespond("p1")
    \/ \E sessionId \in 1..MaxSessions : ListComments(2, sessionId)

SpecNamesake == Init /\ [][NextNamesake]_vars

\* protection requests by callers with and without a session
NextProtect ==
    \/ seq.users = 0 /\ Register(Alice, Password, Email(Alice), <<>>)
    \/ \E t \in Tokens : Logout(t)
    \/ \E title \in {<<>>, Hi}, protect \in {"undefined", "true", "false"},
          token \in {<<>>, Al}, t \in Tokens,
          tokenAnswer \in {"token", "anonymous", "error"},
          protectAnswer \in {"protections", "error", "other"} :
          Protect(title, protect, token, t, tokenAnswer, protectAnswer)

SpecProtect == Init /\ [][NextProtect]_vars

\* comment bodies: absent, blank, and text with blanks around it
NextCommentText ==
    \/ \E text \in {<<>>, <<SP>>, <<SP, SP>>, Hi, <<SP>> \o Hi \o <<SP>>},
          author \in {<<>>, Alice}, parentCommentId \in {0, 1} :
          AddComment(2, text, author, parentCommentId)
    \/ ListComments(2, NoCookie)

SpecCommentText == Init /\ [][NextCommentText]_vars

SpecSession == Init /\ [][NextSession]_vars

AliceLower == ToLowerCase(Alice)
OtherPassword == <<"P", "A", "S", "S", "W", "O", "R", "D">>

\* the registrations requested: each username always with the same password
RegistrationInputs ==
    {[username |-> Alice, password |-> Password, email |-> Email(Alice)],
     [username |-> <<SP>> \o Alice \o <<SP>>, password |-> Password,
      email |-> Email(Bob)],
     [username |-> Bob, password |-> OtherPassword, email |-> Email(Bob)],
     [username |-> Bob, password |-> OtherPassword, email |-> <<SP>> \o Email(Alice)],
     [username |-> AliceLower, password |-> Password, email |-> Email(AliceLower)],
     [username |-> Al, password |-> Password, email |-> Email(Al)],
     [username |-> Hi \o Hi, password |-> Al, email |-> Email(Hi)],
     [username |-> Hi \o Hi, password |-> Password, email |-> Hi],
     [username |-> <<>>, password |-> Password, email |-> Email(Hi)]}

\* the password a username is registered with
RegisteredPassword(username) == IF username = Bob THEN OtherPassword ELSE Password

\* registrations and logins
NextRegister ==
    \/ \E r \in RegistrationInputs : Register(r.username, r.password, r.email, <<>>)
    \/ \E username \in {<<>>, Alice, AliceLower, Bob, Bob \o <<SP>>},
          password \in {<<>>, Password, OtherPassword, WrongPassword} :
          Login(username, password)
    \/ \E t \in Tokens : Logout(t)

SpecRegister == Init /\ [][NextRegister]_vars

\* ------------------------------------------------------- claims: comments
\* C6: every stored reply references a stored comment of the same page
C6_ParentResolvesSameSubject ==
    \A c \in comments :
        c.parentCommentId # 0 =>
            \E parent \in comments :
                parent.id = c.parentCommentId /\ parent.pageId = c.pageId

\* a reply is stored while comments exist on two pages
C6_Witness ==
    /\ \E c \in comments : c.parentCommentId # 0
    /\ \E c, d \in comments : c.pageId # d.pageId

\* C7: a reply to a missing parent is answered 404, a reply to a parent of another
\* page 400, and neither stores anything
C7_BadParentRejected ==
    (last.op = "AddComment" /\ last.pageId # 0 /\ last.text # <<>>
        /\ last.parentCommentId # 0) =>
        LET parents == {c \in last.before : c.id = last.parentCommentId}
        IN  /\ parents = {} => (last.status = 404 /\ comments = last.before)
            /\ (\E parent \in parents : parent.pageId # last.pageId \div 2) =>
                   (last.status = 400 /\ comments = last.before)

\* both rejections are reached with comments stored
C7_Witness404 ==
    /\ last.op = "AddComment" /\ last.status = 404 /\ last.before # {}

C7_Witness ==
    /\ last.op = "AddComment" /\ last.status = 400 /\ last.pageId # 0
    /\ last.text # <<>> /\ last.parentCommentId # 0 /\ last.before # {}

RECURSIVE ForestIds(_)
\* the ids of a forest's nodes, each node before its replies
ForestIds(forest) ==
    IF Len(forest) = 0 THEN <<>>
    ELSE <<forest[1].id>> \o ForestIds(forest[1].replies)
             \o ForestIds(SubSeq(forest, 2, Len(forest)))

RECURSIVE ForestNodes(_)
ForestNodes(forest) ==
    IF Len(forest) = 0 THEN {}
    ELSE {forest[1]} \cup ForestNodes(forest[1].replies)
             \cup ForestNodes(SubSeq(forest, 2, Len(forest)))

IdsOf(nodes) == {nodes[i].id : i \in 1..Len(nodes)}

InCreationOrder(nodes) ==
    \A i, j \in 1..Len(nodes) : i < j => nodes[i].createdAt <= nodes[j].createdAt

\* rows 1(root), 2->1, 3->1, 4->2 of one page, 2 created before 3
ExampleRows(rows) ==
    /\ {<<c.id, c.parentCommentId>> : c \in rows} = {<<1, 0>>, <<2, 1>>, <<3, 1>>, <<4, 2>>}
    /\ \E c, d \in rows : c.id = 2 /\ d.id = 3 /\ c.createdAt < d.createdAt

RowsOf(table, commentId, author) ==
    {v \in table : v.commentId = commentId /\ v.author = author}

\* C1: a vote on a comment the voter has no vote on inserts it; a vote equal to the
\* voter's stored vote deletes it and reports userVote null; a vote opposite to the
\* stored vote updates the row in place and reports the new value
C1_ToggleSemantics ==
    /\ (last.op = "VoteWrite" /\ last.status = 0) =>
          LET prior == RowsOf(last.before, last.commentId, last.author)
              rows == RowsOf(votes, last.commentId, last.author)
          IN  /\ prior = {} =>
                     \E v \in rows :
                         /\ v.vote = last.vote /\ v \notin last.before
                         /\ votes = last.before \cup {v}
              /\ \A e \in prior :
                     /\ e.vote = last.vote => votes = last.before \ {e}
                     /\ e.vote = -last.vote =>
                            votes = (last.before \ {e}) \cup {[e EXCEPT !.vote = last.vote]}
    /\ (last.op = "Vote" /\ last.status = 200) =>
          /\ last.existingVote = {} => last.userVote = last.vote
          /\ \A e \in last.existingVote :
                 /\ e.vote = last.vote => last.userVote = 0
                 /\ e.vote = -last.vote => last.userVote = last.vote

\* an opposite vote has been answered while another voter's vote is stored
C1_Witness ==
    /\ last.op = "Vote" /\ last.status = 200
    /\ \E e \in last.existingVote : e.vote = -last.vote
    /\ \E v \in votes : v.author # last.author

C1_WitnessDelete ==
    /\ last.op = "Vote" /\ last.status = 200
    /\ \E e \in last.existingVote : e.vote = last.vote

C1_WitnessInsert ==
    /\ last.op = "Vote" /\ last.status = 200 /\ last.existingVote = {}

C2_WitnessList ==
    /\ last.op = "ListComments" /\ last.status = 200
    /\ \E node \in ForestNodes(last.comments) : node.upvotes = 1 /\ node.downvotes = 1

\* C3: the ledger never holds two rows for one (commentId, author)
C3_OneVotePerVoter ==
    \A v, w \in votes :
        (v.commentId = w.commentId /\ v.author = w.author) => v = w

\* two first votes of one voter raced: the second insert was refused
C3_Witness ==
    /\ last.op = "VoteWrite" /\ last.status = 500

\* C4: from no vote, one cast of x stores x, a second cast of x removes the row, a
\* third stores x again
C4_UnvoteAndRevote ==
    \A s \in streak :
        LET rows == RowsOf(votes, s.commentId, s.author)
        IN  /\ s.n \in {1, 3} => (rows # {} /\ \A v \in rows : v.vote = s.vote)
            /\ s.n = 2 => rows = {}

\* the third cast has been made
C4_Witness == \E s \in streak : s.n = 3

\* C5: a vote by an unresolved session is answered 401, a vote on a missing comment
\* 404, a vote value other than 1 and -1 400, and none of them changes the ledger
C5_VoteErrors ==
    /\ last.op = "VoteBegin" =>
          LET body == last.body
              valid == /\ body.commentId # 0 /\ "vote" \in DOMAIN body
                       /\ body.vote \in {1, -1}
              resolves == \E s \in sessions, u \in users :
                              /\ s.sessionId = last.sessionId /\ s.expiresAt > now
                              /\ u.id = s.userId
          IN  /\ ("vote" \in DOMAIN body /\ body.vote \notin {1, -1}) => last.status = 400
              /\ (valid /\ ~resolves) => last.status = 401
              /\ (valid /\ resolves) => last.status = 0
              /\ last.status # 0 =>
                     /\ votes = last.before /\ ~last.wrote
                     /\ proc[last.p].pc = "idle"
    /\ last.op = "VoteSelect" =>
          /\ last.status = 404 <=> (\A c \in comments : c.id # last.commentId)
          /\ last.status = 404 =>
                 /\ votes = last.before /\ ~last.wrote
                 /\ proc[last.p].pc = "idle"

\* a vote on a missing comment is refused while the ledger holds votes
C5_Witness ==
    /\ last.op = "VoteSelect" /\ last.status = 404 /\ votes # {}

C5_Witness401 ==
    /\ last.op = "VoteBegin" /\ last.status = 401 /\ votes # {} /\ sessions # {}
    /\ last.sessionId # NoCookie

\* ------------------------------------------------------------ claims: ratings
\* C9: the ratings table never holds two rows for one (page, rater).  A rating
\* submitted where the rater already has a row for the page overwrites that row in
\* place, whichever path the write takes, and leaves every other row and the number
\* of rows alone; the count the response reports is then the count at the start of the
\* request plus the rows other requests have inserted since.
C9_OneRatingPerRater ==
    /\ \A r1, r2 \in ratings :
           (r1.pageId = r2.pageId /\ r1.author = r2.author) => r1 = r2
    /\ last.op = "RateWrite" =>
           LET prior == {r \in last.before :
                            r.pageId = last.pageId /\ r.author = last.author}
           IN prior # {} =>
                  /\ last.path \in {"update", "caught"}
                  /\ ratings = {IF r \in prior
                                THEN [r EXCEPT !.rating = MathRound(last.rating)]
                                ELSE r : r \in last.before}
                  /\ Cardinality(ratings) = Cardinality(last.before)
    /\ (last.op = "Rate" /\ last.existingRating # {}) =>
           last.count = last.countBefore
               + Cardinality({r \in ratings :
                                 r.pageId = last.pageId /\ r.id > last.seqBefore})

\* a rating of 2 by a rater whose row for the page held 5 has left one row, holding 2
C9_Witness ==
    /\ last.op = "RateWrite"
    /\ last.path = "update"
    /\ last.rating = 4
    /\ \E r \in last.before :
           r.pageId = last.pageId /\ r.author = last.author /\ r.rating = 5
    /\ Cardinality(ratings) = 1
    /\ \A r \in ratings : r.rating = 2

\* an insert refused by the unique index has become an update
C9_WitnessCaught == last.op = "RateWrite" /\ last.path = "caught"

\* the response to a second rating reports the count unchanged
C9_WitnessCount ==
    last.op = "Rate" /\ last.existingRating # {} /\ last.count = last.countBefore

\* C10 as written: a rating that is not an integer in [1, 5] is answered 400
C10_NonIntegerRejected ==
    (last.op = "RateBegin" /\ last.pageId # 0
        /\ ~(last.rating % 2 = 0 /\ last.rating \in 2..10)) =>
        (last.status = 400 /\ ratings = last.before)

\* C10: a rating that is absent, below 1 or above 5 is answered 400 and no row is
\* inserted or changed; a rating within [1, 5] is stored rounded to the nearest
\* integer, halves upwards; every stored rating is an integer in [1, 5].
C10_RatingRange ==
    /\ \A r \in ratings : r.rating \in 1..5
    /\ (last.op = "RateBegin" /\ (last.rating < 2 \/ last.rating > 10)) =>
           (last.status = 400 /\ ratings = last.before)
    /\ (last.op = "RateBegin" /\ last.pageId # 0 /\ last.rating \in 2..10) =>
           last.status = 0
    /\ last.op = "RateWrite" =>
           \E r \in ratings :
               /\ r.pageId = last.pageId /\ r.author = last.author
               /\ 2 * r.rating \in {last.rating, last.rating + 1}

\* a rating of 5.5 has been answered 400
C10_Witness ==
    last.op = "RateBegin" /\ last.pageId # 0 /\ last.rating = 11 /\ last.status = 400

\* a rating of 4.5 has been stored as 5
C10_WitnessRounded ==
    last.op = "RateWrite" /\ last.rating = 9 /\ \E r \in ratings : r.rating = 5

\* C11: the average reported for a page, by GET and by POST /api/ratings, is the mean
\* of the page's stored ratings rounded to one decimal, halves upwards, and the count
\* is the number of those rows; without ratings both are 0.  Ratings 4, 5, 3 give
\* 4.0 and a single 5 gives 5.0.  The average is held in tenths.
C11_AverageAndCount ==
    (last.op \in {"GetRatings", "Rate"} /\ last.status = 200) =>
        LET rows == {r \in ratings : r.pageId = last.pageId}
            n == Cardinality(rows)
            total == SumRatings(rows)
        IN  /\ last.count = n
            /\ n = 0 => last.average = 0
            /\ n > 0 => /\ (2 * last.average - 1) * n <= 20 * total
                        /\ 20 * total < (2 * last.average + 1) * n
            /\ (n = 3 /\ {r.rating : r \in rows} = {3, 4, 5}) => last.average = 40
            /\ (n = 1 /\ {r.rating : r \in rows} = {5}) => last.average = 50

\* the ratings 4, 5, 3 of a page have been reported as 4.0 with count 3
C11_Witness ==
    /\ last.op = "GetRatings" /\ last.status = 200
    /\ last.count = 3 /\ last.average = 40
    /\ {r.rating : r \in RatingsOfPage(last.pageId)} = {3, 4, 5}

\* a mean of 4.25 has been reported as 4.3
C11_WitnessHalf ==
    /\ last.op = "GetRatings" /\ last.status = 200
    /\ last.count = 4 /\ SumRatings(RatingsOfPage(last.pageId)) = 17
    /\ last.average = 43

\* a page without ratings has been reported as 0 with count 0
C11_WitnessEmpty ==
    last.op = "GetRatings" /\ last.status = 200 /\ last.count = 0 /\ last.average = 0

\* the response to a rating has reported a rounded mean
C11_WitnessPost == last.op = "Rate" /\ last.count = 2 /\ last.average = 25

\* ----------------------------------------------------------- claims: sessions
\* the token resolves: a row with that token exists, is not expired, and its user exists
Resolves(t) ==
    /\ t # NoCookie
    /\ \E x \in sessions, u \in users :
           x.sessionId = t /\ now < x.expiresAt /\ u.id = x.userId

\* C12: getSession returns a session exactly for a token that was issued, whose row
\* has not been deleted and whose expiresAt, set to the issuance time plus the 30
\* days, lies after the current time; for a token whose expiresAt has passed,
\* swept or not, GET /api/auth/user and getCurrentUser answer as for a token never
\* issued.
C12_SessionLiveness ==
    /\ \A t \in Tokens :
           /\ GetSession(t) # {} <=>
                  /\ t \in 1..seq.tokens
                  /\ \E x \in sessions : x.sessionId = t /\ now < x.expiresAt
           /\ \A x \in GetSession(t) : x \in sessions /\ x.sessionId = t
           /\ (~\E x \in sessions : x.sessionId = t /\ now < x.expiresAt) =>
                  GetCurrentUser(t) = {}
    /\ (last.op \in {"Register", "Login"} /\ last.status = 200) =>
           /\ last.cookie = seq.tokens
           /\ GetSession(last.cookie) =
                  {[sessionId |-> last.cookie, userId |-> last.user.id,
                    expiresAt |-> now + SessionTTL]}
    /\ (last.op = "GetUser"
            /\ ~\E x \in sessions : x.sessionId = last.sessionId /\ now < x.expiresAt) =>
           (~last.loggedIn /\ last.user = {})

\* an expired session that the sweep has not removed has been answered as logged out
C12_Witness ==
    /\ last.op = "GetUser" /\ ~last.loggedIn
    /\ \E x \in sessions : x.sessionId = last.sessionId /\ x.expiresAt <= now

\* an expired session that the sweep has removed has been answered as logged out
C12_WitnessSwept ==
    /\ last.op = "GetUser" /\ ~last.loggedIn
    /\ last.sessionId \in 1..seq.tokens
    /\ \E x \in sessions : x.sessionId # last.sessionId
    /\ ~\E x \in sessions : x.sessionId = last.sessionId

\* C13: once getSession returns nothing for an issued token, it returns nothing for
\* that token after every later step
C13_DeadStaysDead ==
    [][\A t \in 1..seq.tokens : GetSession(t) = {} => GetSession(t)' = {}]_vars

\* a token that no longer resolves has been presented after a later session was issued
C13_Witness ==
    /\ last.op = "GetUser" /\ ~last.loggedIn
    /\ last.sessionId \in 1..seq.tokens /\ last.sessionId < seq.tokens
    /\ GetSession(seq.tokens) # {}

\* C14: deleteSession answers without error, removes the row of the token and no
\* other, changes nothing when the token has no row, leaves getSession(token) empty,
\* and a second call changes nothing more
C14_DeleteIdempotent ==
    last.op = "Logout" =>
        /\ last.status = 200
        /\ sessions = {x \in last.before : x.sessionId # last.sessionId}
        /\ (\A x \in last.before : x.sessionId # last.sessionId) => sessions = last.before
        /\ GetSession(last.sessionId) = {}
        /\ last.sessionId # NoCookie => DeleteSession(last.sessionId) = sessions

\* a token has been deleted a second time while another session exists
C14_Witness ==
    /\ last.op = "Logout"
    /\ last.sessionId \in 1..seq.tokens
    /\ \A x \in last.before : x.sessionId # last.sessionId
    /\ sessions # {}

\* a live session has been deleted while another session exists
C14_WitnessDelete ==
    /\ last.op = "Logout" /\ sessions # {} /\ sessions # last.before

\* C15: the user is resolved exactly when the token is present, its session is live
\* and the session's user exists; otherwise the answer is "not logged in", without an
\* error and without a change of the users or sessions
C15_AuthResolution ==
    /\ \A t \in Tokens :
           GetCurrentUser(t) =
               IF Resolves(t)
               THEN {u \in users : \E x \in sessions : x.sessionId = t /\ x.userId = u.id}
               ELSE {}
    /\ last.op = "GetUser" =>
           /\ last.status = 200
           /\ last.loggedIn <=> Resolves(last.sessionId)
           /\ last.user = GetCurrentUser(last.sessionId)
           /\ Cardinality(last.user) <= 1
           /\ last.before = [users |-> users, sessions |-> sessions]
    /\ (last.op = "GetRatings" /\ last.status = 200 /\ last.authorParam = <<>>) =>
           /\ last.author # <<>> <=> Resolves(last.sessionId)
           /\ Resolves(last.sessionId) =>
                  \E u \in users, x \in sessions :
                      /\ x.sessionId = last.sessionId /\ x.userId = u.id
                      /\ last.author = DisplayName(u)

\* the rater of a request with an expired cookie has been resolved to nobody
C15_Witness ==
    /\ last.op = "GetRatings" /\ last.status = 200 /\ last.author = <<>>
    /\ \E x \in sessions : x.sessionId = last.sessionId /\ x.expiresAt <= now

\* a token never issued has been answered as logged out, and a live one as logged in
C15_WitnessUnknown ==
    last.op = "GetUser" /\ last.sessionId = MaxSessions + 1 /\ ~last.loggedIn

C15_WitnessLoggedIn == last.op = "GetUser" /\ last.loggedIn

\* -------------------------------------------------------------- claims: users
\* the registration's fields pass the checks made before createUser
ValidRegistration(r) ==
    /\ r.username # <<>> /\ r.password # <<>> /\ r.email # <<>>
    /\ Len(r.username) >= 3 /\ Len(r.password) >= 8
    /\ EmailRegexTest(r.email)

\* C16: a registration whose username or email, as handed to createUser, equals that
\* of a stored user character for character is answered 409 and leaves the users
\* unchanged; no two stored users share a username or an email.
C16_ConflictRejected ==
    /\ \A u1, u2 \in users :
           (u1.username = u2.username \/ u1.email = u2.email) => u1 = u2
    /\ (last.op = "Register" /\ ValidRegistration(last)) =>
           LET taken == \E u \in last.before :
                            \/ u.username = Trim(last.username)
                            \/ u.email = ToLowerCase(Trim(last.email))
           IN  /\ taken <=> last.status = 409
               /\ last.status = 409 => users = last.before

\* a registration under a new username with a stored email has been answered 409
C16_Witness ==
    /\ last.op = "Register" /\ last.status = 409
    /\ \A u \in users : u.username # Trim(last.username)

\* a registration under a stored username with a new email has been answered 409
C16_WitnessUsername ==
    /\ last.op = "Register" /\ last.status = 409
    /\ \A u \in users : u.email # ToLowerCase(Trim(last.email))

\* usernames that differ only in case are both stored
C16_WitnessCase ==
    \E u1, u2 \in users : u1.username = Alice /\ u2.username = AliceLower

\* C17: a valid registration whose username and email are not stored succeeds and
\* stores the user; a login succeeds exactly for a stored username with the password
\* it was registered with, and is answered 401 for any other password and for an
\* unknown username; the stored credential is the salted hash, not the password.
C17_RegisterThenVerify ==
    /\ (last.op = "Register" /\ ValidRegistration(last)
            /\ \A u \in last.before :
                   /\ u.username # Trim(last.username)
                   /\ u.email # ToLowerCase(Trim(last.email))) =>
           /\ last.status = 200
           /\ users = last.before \cup {last.user}
           /\ last.user.username = Trim(last.username)
           /\ VerifyCredentials(last.user.username, last.password) = {last.user}
    /\ (last.op = "Login" /\ last.username # <<>> /\ last.password # <<>>) =>
           LET known == {u \in users : u.username = Trim(last.username)}
           IN  /\ last.status \in {200, 401}
               /\ last.status = 200 <=>
                      (known # {} /\ last.password = RegisteredPassword(Trim(last.username)))
               /\ last.status = 200 => last.user \in known
    /\ \A u \in users :
           /\ u.password.hash = Pbkdf2(RegisteredPassword(u.username), u.password.salt)
           /\ u.password.hash # RegisteredPassword(u.username)

\* a login with the registered password has succeeded
C17_Witness == last.op = "Login" /\ last.status = 200

\* a login of a stored user with another password has been answered 401
C17_WitnessWrong ==
    /\ last.op = "Login" /\ last.status = 401
    /\ \E u \in users : u.username = Trim(last.username)

\* a login under an unknown username has been answered 401
C17_WitnessUnknown ==
    /\ last.op = "Login" /\ last.status = 401 /\ users # {}
    /\ \A u \in users : u.username # Trim(last.username)

\* --------------------------------------------------- claims: races on first writes
\* C18: a first vote whose insert is refused by UNIQUE(commentId, author), because
\* a racing first vote of the same voter was inserted after the lookup, is not
\* answered 500: it completes as an update in place of the row that is there
C18_VoteRaceConverted ==
    (last.op = "VoteWrite" /\ last.existingVote = {}) =>
        LET there == {v \in last.before :
                         v.commentId = last.commentId /\ v.author = last.author}
        IN  there # {} =>
                /\ last.status # 500
                /\ votes = {IF v \in there THEN [v EXCEPT !.vote = last.vote] ELSE v :
                               v \in last.before}

\* C19: a rating whose insert is refused by the unique index, because a racing
\* rating of the same rater for the page was inserted after the lookup, becomes an
\* update of that row: the row then holds this request's rounded value, it is the
\* only row of the rater for the page, no other row changes and the request goes on
\* to its 200 response
C19_RatingRaceConverted ==
    /\ (last.op = "RateWrite" /\ last.existingRating = {}) =>
           LET there == {r \in last.before :
                            r.pageId = last.pageId /\ r.author = last.author}
           IN  there # {} =>
                   /\ last.path = "caught"
                   /\ ratings = {IF r \in there
                                 THEN [r EXCEPT !.rating = MathRound(last.rating)]
                                 ELSE r : r \in last.before}
                   /\ Cardinality(RatingByKey(last.pageId, last.author)) = 1
                   /\ proc[last.p].pc = "rate_respond"
    /\ last.op = "Rate" => last.status = 200

\* a rating that lost the race has overwritten the winner's different value
C19_Witness ==
    /\ last.op = "RateWrite" /\ last.path = "caught"
    /\ \E r \in last.before :
           /\ r.pageId = last.pageId /\ r.author = last.author
           /\ r.rating # MathRound(last.rating)
    /\ \E r \in ratings :
           /\ r.pageId = last.pageId /\ r.author = last.author
           /\ r.rating = MathRound(last.rating)

\* the request that lost the race has been answered 200 with one rating counted
C19_WitnessResponse ==
    /\ last.op = "Rate" /\ last.existingRating = {} /\ last.countBefore = 0
    /\ last.count = 1 /\ seq.ratings = 1
    /\ \E q \in Procs : proc[q].pc = "idle" /\ q # last.p

\* ------------------------------------------------------ claims: comment bodies
\* C20: a comment is stored with its body trimmed, a body that is empty once trimmed
\* is answered 400 with nothing stored, and no stored comment has an empty text
C20_EmptyBodyRejected ==
    /\ \A c \in comments : c.text # <<>>
    /\ last.op = "AddComment" =>
           /\ Trim(last.text) = <<>> => (last.status = 400 /\ comments = last.before)
           /\ last.status = 201 => last.comment.text = Trim(last.text)

\* ------------------------------------------------------------ claims: raters
\* C21: the rater of a rating is the author given in the request; without one, the
\* realname, or else the username, of the user the cookie resolves to; without that,
\* "Anonymous".  Ratings of a page by requests with neither therefore share one row,
\* each overwriting the one before.
C21_RaterResolution ==
    /\ (last.op = "RateBegin" /\ last.status = 0) =>
           LET author == proc[last.p].author
           IN  /\ last.providedAuthor # <<>> => author = last.providedAuthor
               /\ (last.providedAuthor = <<>> /\ Resolves(last.sessionId)) =>
                      \E u \in users, x \in sessions :
                          /\ x.sessionId = last.sessionId /\ x.userId = u.id
                          /\ author = IF u.realname # <<>> THEN u.realname ELSE u.username
               /\ (last.providedAuthor = <<>> /\ ~Resolves(last.sessionId)) =>
                      author = Anonymous
    /\ Cardinality({r \in ratings : r.pageId = 1 /\ r.author = Anonymous}) <= 1
    /\ (last.op = "RateWrite" /\ last.author = Anonymous
            /\ \E r \in last.before : r.pageId = last.pageId /\ r.author = Anonymous) =>
           /\ Cardinality(ratings) = Cardinality(last.before)
           /\ \E r \in ratings :
                  /\ r.pageId = last.pageId /\ r.author = Anonymous
                  /\ r.rating = MathRound(last.rating)

\* a second rating without author or session has overwritten the first one's value
C21_Witness ==
    /\ last.op = "RateWrite" /\ last.author = Anonymous
    /\ \E r \in last.before :
           r.pageId = last.pageId /\ r.author = Anonymous
               /\ r.rating # MathRound(last.rating)

\* a rating without author has been attributed to the realname of the session's user
C21_WitnessSession ==
    /\ last.op = "RateBegin" /\ last.status = 0 /\ last.providedAuthor = <<>>
    /\ proc[last.p].author = Al

\* a rating with an author and a live session has been attributed to the author given
C21_WitnessProvided ==
    /\ last.op = "RateBegin" /\ last.status = 0 /\ last.providedAuthor = Bob
    /\ Resolves(last.sessionId) /\ proc[last.p].author = Bob

\* ------------------------------------------------------ claims: registration
\* C22: a registration answered 400 or 409 leaves users and sessions as they were;
\* one answered 200 adds one user and one session, and the token set as cookie
\* resolves through getCurrentUser to the user just created.
C22_RegistrationAllOrNothing ==
    last.op = "Register" =>
        /\ last.status \in {200, 400, 409}
        /\ last.status \in {400, 409} =>
               (users = last.before /\ sessions = last.sessionsBefore)
        /\ last.status = 200 =>
               /\ last.user \notin last.before
               /\ users = last.before \cup {last.user}
               /\ Cardinality(sessions \ last.sessionsBefore) = 1
               /\ last.sessionsBefore \subseteq sessions
               /\ \A x \in sessions \ last.sessionsBefore :
                      x.sessionId = last.cookie /\ x.userId = last.user.id
               /\ GetCurrentUser(last.cookie) = {last.user}

\* a second user has registered and the cookie resolves to that user, not the first
C22_Witness ==
    /\ last.op = "Register" /\ last.status = 200
    /\ last.before # {}
    /\ GetCurrentUser(last.cookie) = {last.user}

\* a registration has been answered 409 while a user and a session exist
C22_WitnessConflict ==
    last.op = "Register" /\ last.status = 409 /\ users # {} /\ sessions # {}

\* a registration has been answered 400 while a user and a session exist
C22_WitnessInvalid ==
    last.op = "Register" /\ last.status = 400 /\ users # {} /\ sessions # {}

\* ------------------------------------------------------------ claims: logout
\* C23: logout answers success for every token, presented or not, stored or not; the
\* token it carried resolves to nobody afterwards, an issued token that resolves to
\* nobody still does after every later step, and a vote under such a token is answered 401
C23_LogoutRevokes ==
    /\ [](last.op = "Logout" =>
             (last.status = 200 /\ GetCurrentUser(last.sessionId) = {}))
    /\ [][\A t \in 1..seq.tokens :
              GetCurrentUser(t) = {} => GetCurrentUser(t)' = {}]_vars
    /\ []((last.op = "VoteBegin" /\ GetCurrentUser(last.sessionId) = {}) =>
             (last.status = 401 /\ votes = last.before))

\* a vote under a logged-out token has been answered 401 while the user's other
\* session is live
C23_Witness ==
    /\ last.op = "VoteBegin" /\ last.status = 401
    /\ last.sessionId \in 1..seq.tokens
    /\ \E t \in 1..seq.tokens : GetCurrentUser(t) # {}

\* a logout without a cookie, and one with a token never issued, has been answered
C23_WitnessNoToken ==
    last.op = "Logout" /\ last.status = 200 /\ last.sessionId = NoCookie /\ sessions # {}

C23_WitnessUnknownToken ==
    last.op = "Logout" /\ last.status = 200 /\ last.sessionId = MaxSessions + 1

\* ------------------------------------------------------------ claims: delete
\* C24: deleting a comment removes the comment, every reply below it and every vote
\* on a removed comment; afterwards no comment names a missing parent and no vote a
\* missing comment
C24_DeleteCascades ==
    /\ last.op = "DeleteComment" =>
           LET gone == Descendants({last.id}, last.before.comments)
           IN  /\ comments = {c \in last.before.comments : c.id \notin gone}
               /\ votes = {v \in last.before.votes : v.commentId \notin gone}
    /\ \A c \in comments :
           c.parentCommentId # 0 => \E d \in comments : d.id = c.parentCommentId
    /\ \A v \in votes : \E c \in comments : c.id = v.commentId

\* the same, for a comments table created with the foreign key
C24_DeleteCascadesCreated == parentFK => C24_DeleteCascades

\* a comment with a voted reply below a reply has been deleted with all of them
C24_WitnessCreated ==
    /\ parentFK /\ last.op = "DeleteComment"
    /\ Cardinality(last.before.comments) = 3 /\ comments = {}
    /\ last.before.votes # {} /\ votes = {}

\* -------------------------------------------------------- claims: protection
\* C25, for a caller without a session, who is the recorded creator of no page: a
\* protection request is answered 403 and the wiki's protect call is not made
C25_OnlyCreatorProtects ==
    (last.op = "Protect" /\ GetCurrentUser(last.sessionId) = {}) =>
        (last.status = 403 /\ ~last.reached)

\* ----------------------------------------------------- claims: append-only
\* C26: comments are append-only: over every step of every handler each stored
\* comment is still stored, and the row carrying its id is that comment alone, with
\* its page, text, author, parent and creation time as they were
C26_CommentsAppendOnly ==
    [][\A c \in comments : {d \in comments' : d.id = c.id} = {c}]_vars

\* a second comment has been stored after a vote on the first was written
C26_Witness ==
    /\ last.op = "AddComment" /\ last.status = 201
    /\ last.before # {} /\ votes # {}
    /\ Cardinality(comments) = 2

\* ------------------------------------------------------ claims: voter identity
\* some user with the display name author holds a session that resolves
HoldsSession(author) ==
    \E x \in sessions, u \in users :
        Resolves(x.sessionId) /\ u.id = x.userId /\ DisplayName(u) = author

\* C27 as stated: when a vote row is inserted, changed or deleted, the voter of the
\* writing request is the display name of a user who holds a live session at that
\* moment
C27_VoterHoldsSession ==
    (last.op = "VoteWrite" /\ votes # last.before) => HoldsSession(last.author)

\* C27, amended: every vote row carries the display name of a registered user; a
\* vote request passes authentication only with a token that resolves at that
\* moment, and takes the display name of that token's user as its voter; the voter
\* of a request never changes afterwards; and the vote rows change only in the write
\* of such a request, the rows inserted or changed carrying its voter
C27_VoterAuthenticated ==
    /\ [](\A v \in votes : \E u \in users : DisplayName(u) = v.author)
    /\ [][/\ \A p \in Procs :
                (proc[p].pc = "idle" /\ proc'[p].pc # "idle") =>
                    /\ last'.op = "VoteBegin" /\ Resolves(last'.sessionId)
                    /\ \E x \in sessions, u \in users :
                           /\ x.sessionId = last'.sessionId /\ u.id = x.userId
                           /\ proc'[p].author = DisplayName(u)
          /\ \A p \in Procs :
                (proc[p].pc # "idle" /\ proc'[p].pc # "idle") =>
                    proc'[p].author = proc[p].author
          /\ votes' # votes =>
                \E p \in Procs :
                    /\ proc[p].pc = "vote_write"
                    /\ \A v \in votes' \ votes : v.author = proc[p].author]_vars

\* a vote row was written by a request whose session had been deleted between its
\* authentication and its write
C27_Witness ==
    /\ last.op = "VoteWrite" /\ votes # last.before
    /\ ~HoldsSession(last.author)
    /\ \E u \in users : DisplayName(u) = last.author

\* ------------------------------------------------------- claims: expiry sweep
\* C28: the sweep deletes only sessions that getSession no longer returns, so after
\* a sweep getSession and getCurrentUser answer every token as they did before it;
\* a session whose expiresAt equals the current time is kept and is not returned
C28_SweepUnobservable ==
    last.op = "CleanupExpiredSessions" =>
        /\ sessions \subseteq last.before
        /\ \A s \in last.before \ sessions : ~(s.expiresAt > now)
        /\ \A t \in Tokens :
              LET before == {s \in last.before : s.sessionId = t /\ s.expiresAt > now}
              IN  /\ GetSession(t) = before
                  /\ GetCurrentUser(t) =
                         IF t = NoCookie THEN {}
                         ELSE UNION {GetUserById(s.userId) : s \in before}

\* a sweep deleted one session and kept one whose expiresAt is the current time
C28_Witness ==
    /\ last.op = "CleanupExpiredSessions"
    /\ sessions # last.before
    /\ \E s \in sessions : s.expiresAt = now

\* a sweep deleted one session and kept one that resolves
C28_WitnessLive ==
    /\ last.op = "CleanupExpiredSessions"
    /\ sessions # last.before
    /\ \E s \in sessions : Resolves(s.sessionId)

\* --------------------------------------------------- claims: vote independence
\* the vote of user u on a comment: the row the vote handler looks up for u
VoteOfUser(rows, commentId, u) ==
    {v \in rows : v.commentId = commentId /\ v.author = DisplayName(u)}

\* C29: a vote written for one account leaves the vote of every other account on
\* that comment as it was
C29_VotesIndependent ==
    last.op = "VoteWrite" =>
        \A B \in users :
            B.id # last.userId =>
                VoteOfUser(votes, last.commentId, B) =
                    VoteOfUser(last.before, last.commentId, B)

\* ------------------------------------------------ claims: session independence
\* C30: a successful login or registration adds one session with a token no stored
\* session has and keeps every stored session; and over every step, a token that
\* resolves, is not the token logged out in that step and has not reached its own
\* expiresAt, resolves afterwards to the same session and the same user
C30_SessionsIndependent ==
    [][/\ (last'.op \in {"Login", "Register"} /\ last'.status = 200) =>
              /\ sessions \subseteq sessions'
              /\ \E s \in sessions' \ sessions :
                     /\ sessions' = sessions \cup {s}
                     /\ s.sessionId = last'.cookie
                     /\ \A x \in sessions : x.sessionId # s.sessionId
       /\ \A t \in Tokens :
              (/\ GetSession(t) # {}
               /\ ~(last'.op = "Logout" /\ last'.sessionId = t)
               /\ \A s \in GetSession(t) : s.expiresAt > now') =>
                  /\ GetSession(t)' = GetSession(t)
                  /\ GetCurrentUser(t)' = GetCurrentUser(t)]_vars

\* one of a user's two sessions was logged out and the other still resolves
C30_Witness ==
    /\ last.op = "Logout"
    /\ \E x \in last.before \ sessions, s \in sessions :
           s.userId = x.userId /\ Resolves(s.sessionId)

\* a user logged in again while an earlier session of theirs resolves
C30_WitnessLogin ==
    /\ last.op = "Login" /\ last.status = 200
    /\ \E s \in sessions : s.sessionId # last.cookie /\ Resolves(s.sessionId)

\* time passed the expiresAt of one session and another still resolves
C30_WitnessExpiry ==
    /\ last.op = "Tick"
    /\ \E x \in sessions, s \in sessions :
           x.expiresAt <= now /\ Resolves(s.sessionId)

====
